---- MODULE Spec2Model ----
(***************************************************************************)
(* Conway's Game of Life show (chipcope/game-of-life).                     *)
(*                                                                         *)
(* The model covers the toroidal grid engine (count_neighbors,             *)
(* next_generation, population, random_grid), the blocking simulation loop *)
(* of game_of_life.py main and the timed-callback chain of preview.py      *)
(* GameOfLife.simulation_step, the phases of the show before it, and the   *)
(* pattern catalog of patterns.py with place_pattern and load_pattern.     *)
(* Grids are functions row -> col -> 0/1 with rows 0..ROWS-1 and columns   *)
(* 0..COLS-1, as the code's lists of lists.                                *)
(* Delays are in milliseconds.                                             *)
(***************************************************************************)
EXTENDS Integers, Sequences, FiniteSets, TLC

VARIABLES
    pc,         \* position of game_of_life.py main / of the preview callback chain
    line,       \* index of the ticker line being shown during the startup sequence
    config,     \* module-level configuration: DISSOLVE_SCHEDULE, DISSOLVE_TOTAL_GENS
    find_bitmap,\* text_to_bitmap("find")
    m,          \* locals of game_of_life.py main's simulation loop
    ev,         \* what the last tick of main's loop did (its log lines and its sleep)
    self,       \* fields of preview.py's GameOfLife object
    pev,        \* what the last preview simulation_step did
    cleared,    \* matrix.Clear() has been called
    in_grid,    \* grid engine harness: argument of the last next_generation call;
                \* pattern and overlay harnesses: the grid before the operation
    out_grid,   \* result of the last next_generation call / the grid after the operation
    calls,      \* number of calls made by the harness
    call,       \* the call under test of the function harnesses: its name and arguments
    result      \* what that call has returned or raised so far

vars == <<pc, line, config, find_bitmap, m, ev, self, pev, cleared,
          in_grid, out_grid, calls, call, result>>

(***************************************************************************)
(* Bounds of the model.  The show runs on a 64x64 panel; the model runs    *)
(* the same code on a smaller torus.                                       *)
(***************************************************************************)
ROWS == 5
COLS == 6
\* number of next_generation calls the harness makes
MaxCalls == 2

\* no call of the function harnesses is under test
NoCall == [name |-> "none"]

Rows == 0 .. (ROWS - 1)
Cols == 0 .. (COLS - 1)

(***************************************************************************)
(* Grid engine                                                             *)
(***************************************************************************)
empty_grid == [r \in Rows |-> [c \in Cols |-> 0]]

\* place_pattern without the wrap: offsets that leave the grid are dropped
place_pattern_clipped(grid, pattern, row_offset, col_offset) ==
    [r \in Rows |-> [c \in Cols |->
        IF \E p \in pattern : /\ r = row_offset + p[1]
                              /\ c = col_offset + p[2]
        THEN 1 ELSE grid[r][c]]]


\* grid[(row_offset + dr) % rows][(col_offset + dc) % cols] = 1 for every
\* (dr, dc) of the pattern
place_pattern(grid, pattern, row_offset, col_offset) ==
    [r \in Rows |-> [c \in Cols |->
        IF \E p \in pattern : /\ r = (row_offset + p[1]) % ROWS
                              /\ c = (col_offset + p[2]) % COLS
        THEN 1 ELSE grid[r][c]]]

\* the eight lookups grid[(row + dr) % ROWS][(col + dc) % COLS] of the two loops,
\* (dr, dc) = (0, 0) skipped, summed
count_neighbors_nowrap(grid, row, col) ==
    LET Cell(r, c) == IF r \in Rows /\ c \in Cols THEN grid[r][c] ELSE 0
    IN Cell(row - 1, col - 1) + Cell(row - 1, col) + Cell(row - 1, col + 1)
       + Cell(row, col - 1) + Cell(row, col + 1)
       + Cell(row + 1, col - 1) + Cell(row + 1, col) + Cell(row + 1, col + 1)

count_neighbors(grid, row, col) ==
    LET up == grid[(row - 1) % ROWS]
        mid == grid[row % ROWS]
        down == grid[(row + 1) % ROWS]
        left == (col - 1) % COLS
        right == (col + 1) % COLS
    IN up[left] + up[col % COLS] + up[right]
       + mid[left] + mid[right]
       + down[left] + down[col % COLS] + down[right]

\* next_generation storing the neighbour count n in a cell that lives, where the
\* code stores 1
next_generation_counts(grid) ==
    [r \in Rows |-> [c \in Cols |->
        LET n == count_neighbors(grid, r, c)
        IN IF grid[r][c] # 0
           THEN (IF n \in {2, 3} THEN n ELSE 0)
           ELSE (IF n = 3 THEN n ELSE 0)]]


next_generation(grid) ==
    [r \in Rows |-> [c \in Cols |->
        LET n == count_neighbors(grid, r, c)
        IN IF grid[r][c] # 0
           THEN (IF n \in {2, 3} THEN 1 ELSE 0)
           ELSE (IF n = 3 THEN 1 ELSE 0)]]

RECURSIVE row_sum(_, _)
row_sum(row, c) == IF c >= COLS THEN 0 ELSE row[c] + row_sum(row, c + 1)

RECURSIVE rows_sum(_, _)
rows_sum(grid, r) == IF r >= ROWS THEN 0 ELSE row_sum(grid[r], 0) + rows_sum(grid, r + 1)

population(grid) == rows_sum(grid, 0)

(***************************************************************************)
(* Configuration of game_of_life.py (delays in milliseconds)               *)
(***************************************************************************)
STALE_RESET_GENS == 50
DISSOLVE_TOTAL_GENS == 12
FIND_Y_TOP == 1
FIND_Y_BOT == 43
FIND_Y_UPPER_BRIDGE == 11
FIND_Y_LOWER_BRIDGE == 32

DISSOLVE_SCHEDULE ==
    << << 4, FIND_Y_TOP>>,
       << 7, FIND_Y_BOT>>,
       << 9, FIND_Y_UPPER_BRIDGE>>,
       <<10, FIND_Y_LOWER_BRIDGE>> >>

\* CIRCADIAN_STEPS[i] of the code is CIRCADIAN_STEPS[i + 1] here
CIRCADIAN_STEPS == <<600, 632, 674, 714, 750, 800, 857, 938, 1034>>
CIRCADIAN_CENTER == 4
CIRCADIAN_STRIDE == 8
NumTickerLines == 3

\* random.choice([-1, 0, 1])
Moves == {-1, 0, 1}
MoveDraws(walking) == IF walking THEN Moves ELSE {0}

MainConfig == [schedule |-> DISSOLVE_SCHEDULE, total |-> DISSOLVE_TOTAL_GENS]

(***************************************************************************)
(* Configuration of preview.py where it differs                            *)
(***************************************************************************)
DISSOLVE_PHASE_GENS == 4
PREVIEW_DISSOLVE_TOTAL_GENS == 20

PREVIEW_DISSOLVE_SCHEDULE ==
    << <<DISSOLVE_PHASE_GENS * 1, FIND_Y_TOP>>,
       <<DISSOLVE_PHASE_GENS * 2, FIND_Y_BOT>>,
       <<DISSOLVE_PHASE_GENS * 3, FIND_Y_UPPER_BRIDGE>>,
       <<DISSOLVE_PHASE_GENS * 4, FIND_Y_LOWER_BRIDGE>> >>

PreviewConfig == [schedule |-> PREVIEW_DISSOLVE_SCHEDULE,
                  total |-> PREVIEW_DISSOLVE_TOTAL_GENS]

(***************************************************************************)
(* bubble_font (imported by both scripts): bitmaps are sequences of rows   *)
(* of 0/1 pixels, bitmap[row + 1][col + 1] being the code's                *)
(* bitmap[row][col].                                                       *)
(***************************************************************************)
CHAR_HEIGHT == 3

\* text_to_bitmap("find"): a CHAR_HEIGHT-row bitmap fixed for the run
FindBitmaps ==
    { << <<0, 1, 0>>, <<0, 1, 0>>, <<0, 1, 0>> >>,
      << <<1, 1, 0>>, <<1, 1, 0>>, <<0, 0, 0>> >>,
      << <<1, 0, 0>>, <<0, 0, 0>>, <<0, 0, 1>> >>,
      << <<1, 1, 1>>, <<1, 0, 0>>, <<1, 1, 0>> >> }

\* the bitmap's pixel at grid cell (r, c) when placed at (x_offset, y_offset),
\* 0 where the bitmap does not reach; pixels outside the grid are dropped
bitmap_pixel(bitmap, r, c, x_offset, y_offset) ==
    LET row == r - y_offset
        col == c - x_offset
    IN IF /\ row >= 0 /\ row < Len(bitmap)
          /\ col >= 0 /\ col < Len(bitmap[row + 1])
       THEN bitmap[row + 1][col + 1]
       ELSE 0

bitmap_to_grid(bitmap, cols, rows, x_offset, y_offset) ==
    [r \in 0 .. (rows - 1) |-> [c \in 0 .. (cols - 1) |->
        IF bitmap_pixel(bitmap, r, c, x_offset, y_offset) # 0 THEN 1 ELSE 0]]

overlay_bitmap_to_grid(bitmap, grid, x_offset, y_offset) ==
    [r \in Rows |-> [c \in Cols |->
        IF bitmap_pixel(bitmap, r, c, x_offset, y_offset) # 0 THEN 1 ELSE grid[r][c]]]

(***************************************************************************)
(* random_grid(): each cell is live when its draw is below                 *)
(* INITIAL_DENSITY, so every grid is a possible outcome; the model draws   *)
(* from these.                                                             *)
(***************************************************************************)
RandomPatterns ==
    { {},
      {<<0, 0>>},
      {<<0, 0>>, <<0, 1>>, <<1, 0>>},
      {<<0, 0>>, <<0, 1>>, <<1, 0>>, <<1, 1>>},
      {<<2, 1>>, <<2, 2>>, <<2, 3>>} }

random_grid == { place_pattern(empty_grid, p, 0, 0) : p \in RandomPatterns }

\* the draws a tick makes: random_grid() only when it resets, random.choice only
\* when the circadian walk is due
GridDraws(resetting, outcomes) == IF resetting THEN outcomes ELSE {empty_grid}

(***************************************************************************)
(* game_of_life.py main: one pass of the while loop, in the order of the   *)
(* code.  s holds main's locals.                                           *)
(***************************************************************************)
\* the matrix before the first call of render_grid: the last night frame
NoFrame == << >>

\* render_grid, lines 213-220: every pixel of the canvas is set from the grid
\* and the canvas is swapped in.  frames counts the calls; static counts the
\* consecutive frames, this one included, that showed the same grid since it
\* was last seeded (fresh: seeded since the last frame).
render_grid(s) ==
    [s EXCEPT !.canvas = s.grid,
              !.frames = s.frames + 1,
              !.static = IF s.canvas = s.grid /\ ~s.fresh THEN s.static + 1 ELSE 1,
              !.fresh = FALSE]

\* lines 305-307 with the frame swapped in after the step
main_step_render_after_step(s) ==
    render_grid([s EXCEPT !.grid = next_generation(s.grid),
                          !.gen_count = s.gen_count + 1])

\* lines 305-307
main_step(s) ==
    [render_grid(s) EXCEPT !.grid = next_generation(s.grid),
                           !.gen_count = s.gen_count + 1]

\* lines 309-314
main_stale_never_reset(s, current_pop) ==
    [s EXCEPT !.stale_count = s.stale_count + 1, !.last_pop = current_pop]

main_stale(s, current_pop) ==
    [s EXCEPT !.stale_count = IF current_pop = s.last_pop THEN s.stale_count + 1 ELSE 0,
              !.last_pop = current_pop]

\* lines 321-323
main_overlay_due_late(s, cfg) ==
    LET idx == s.dissolve_phase - 1
    IN idx < Len(cfg.schedule) /\ s.gen_count > cfg.schedule[idx + 1][1]

main_overlay_due(s, cfg) ==
    LET idx == s.dissolve_phase - 1
    IN idx < Len(cfg.schedule) /\ s.gen_count >= cfg.schedule[idx + 1][1]

\* the walk of lines 347-348 on every pass once the dissolve is over, whatever
\* gen_count is
main_circadian_due_every_pass(s) ==
    ~s.dissolving

\* the exit of lines 331-332 never taken
main_cruise_due_never(s, cfg) ==
    FALSE


\* lines 331-332
main_cruise_due_early(s, cfg) ==
    LET idx == s.dissolve_phase - 1
    IN idx >= Len(cfg.schedule)

main_cruise_due(s, cfg) ==
    LET idx == s.dissolve_phase - 1
    IN idx >= Len(cfg.schedule) /\ s.gen_count >= cfg.total

\* lines 320-336 with the bitmap assigned to the grid (bitmap_to_grid) in place of
\* the overlay
main_dissolve_seeds(s, cfg, bitmap) ==
    IF ~s.dissolving THEN s
    ELSE IF main_overlay_due(s, cfg)
    THEN [s EXCEPT !.grid = bitmap_to_grid(bitmap, COLS, ROWS, 0,
                                           cfg.schedule[s.dissolve_phase][2]),
                   !.dissolve_phase = s.dissolve_phase + 1,
                   !.stale_count = 0]
    ELSE IF main_cruise_due(s, cfg)
    THEN [s EXCEPT !.dissolving = FALSE, !.stale_count = 0]
    ELSE s


\* lines 320-336
main_dissolve(s, cfg, bitmap) ==
    IF ~s.dissolving THEN s
    ELSE IF main_overlay_due(s, cfg)
    THEN [s EXCEPT !.grid = overlay_bitmap_to_grid(bitmap, s.grid, 0,
                                                   cfg.schedule[s.dissolve_phase][2]),
                   !.dissolve_phase = s.dissolve_phase + 1,
                   !.stale_count = 0]
    ELSE IF main_cruise_due(s, cfg)
    THEN [s EXCEPT !.dissolving = FALSE, !.stale_count = 0]
    ELSE s

\* lines 338-339
main_reset_due_pop_only(s, current_pop) ==
    ~s.dissolving /\ current_pop = 0

\* line 338 resetting only above the threshold
main_reset_due_above(s, current_pop) ==
    ~s.dissolving /\ (s.stale_count > STALE_RESET_GENS \/ current_pop = 0)


main_reset_due(s, current_pop) ==
    ~s.dissolving /\ (s.stale_count >= STALE_RESET_GENS \/ current_pop = 0)

\* lines 342-343; a fresh seed starts a new run of frames
main_reset(s, rg) == [s EXCEPT !.grid = rg, !.stale_count = 0, !.fresh = TRUE]

\* lines 338, 347
main_circadian_due_unfrozen(s) ==
    s.gen_count % CIRCADIAN_STRIDE = 0

main_circadian_due(s) ==
    ~s.dissolving /\ s.gen_count % CIRCADIAN_STRIDE = 0

\* lines 349-354
circadian_clamp(pos, move) ==
    LET new_pos == pos + move
    IN IF new_pos < 0 THEN 0
       ELSE IF new_pos >= Len(CIRCADIAN_STEPS) THEN Len(CIRCADIAN_STEPS) - 1
       ELSE new_pos

circadian_walk(pos, move) ==
    LET new_pos == pos + move
    IN IF new_pos < 0 THEN 1
       ELSE IF new_pos >= Len(CIRCADIAN_STEPS) THEN Len(CIRCADIAN_STEPS) - 2
       ELSE new_pos

\* a program or object the specification at hand does not run
NoSim == [used |-> FALSE]

\* the log of a pass: what it printed, drew and slept
NoTick ==
    [tick |-> FALSE, overlay |-> 0, cruise_entered |-> FALSE, reseeded |-> FALSE,
     walked |-> FALSE, move |-> 0, pos_before |-> CIRCADIAN_CENTER, current_pop |-> 0,
     pop_before |-> 0, stale_before |-> 0, delay |-> 0]

\* lines 296-301
main_locals(grid) ==
    [grid |-> grid, gen_count |-> 0, stale_count |-> 0, last_pop |-> 0,
     dissolving |-> TRUE, dissolve_phase |-> 1, circadian_pos |-> CIRCADIAN_CENTER,
     canvas |-> NoFrame, frames |-> 0, static |-> 0, fresh |-> TRUE]

\* lines 305-336: the part of a pass before its random draws
main_scripted(s, cfg, bitmap) ==
    LET s1 == main_step(s)
        current_pop == population(s1.grid)
        s2 == main_stale(s1, current_pop)
        s3 == main_dissolve(s2, cfg, bitmap)
    IN [locals |-> s3,
        current_pop |-> current_pop,
        overlay |-> IF s3.dissolve_phase # s2.dissolve_phase THEN s2.dissolve_phase ELSE 0,
        cruise_entered |-> s2.dissolving /\ ~s3.dissolving]

\* lines 338-361: the rest of the pass, with rg the outcome of random_grid() and
\* move the outcome of random.choice, each used only where the code draws it
main_drawn(s, pre, rg, move) ==
    LET s3 == pre.locals
        resetting == main_reset_due(s3, pre.current_pop)
        s4 == IF resetting THEN main_reset(s3, rg) ELSE s3
        walking == main_circadian_due(s4)
        s5 == IF walking
              THEN [s4 EXCEPT !.circadian_pos = circadian_walk(s4.circadian_pos, move)]
              ELSE s4
    IN [locals |-> s5,
        log |-> [tick |-> TRUE,
                 overlay |-> pre.overlay,
                 cruise_entered |-> pre.cruise_entered,
                 reseeded |-> resetting,
                 walked |-> walking,
                 move |-> IF walking THEN move ELSE 0,
                 pos_before |-> s.circadian_pos,
                 current_pop |-> pre.current_pop,
                 pop_before |-> s.last_pop,
                 stale_before |-> s.stale_count,
                 delay |-> CIRCADIAN_STEPS[s5.circadian_pos + 1]]]

\* lines 304-361: one pass of the loop
main_tick(s, cfg, bitmap, rg, move) ==
    main_drawn(s, main_scripted(s, cfg, bitmap), rg, move)

(***************************************************************************)
(* game_of_life.py main as a state machine: the startup sequence, the      *)
(* simulation loop and the interrupt.                                      *)
(***************************************************************************)
MaxGen == 64

StartupPhases == {"Stargazing", "TickerScroll", "Pause", "FinalScroll", "Dawn"}

\* y_offset = (ROWS - CHAR_HEIGHT) // 2
y_offset == (ROWS - CHAR_HEIGHT) \div 2

MainInit ==
    /\ pc = "Stargazing"
    /\ line = 0
    /\ config = MainConfig
    /\ find_bitmap \in FindBitmaps
    /\ m = NoSim
    /\ ev = NoTick
    /\ self = NoSim
    /\ pev = NoSim
    /\ cleared = FALSE
    /\ in_grid = empty_grid
    /\ out_grid = empty_grid
    /\ calls = 0
    /\ call = NoCall
    /\ result = NoCall

Idle == UNCHANGED <<config, find_bitmap, self, pev, in_grid, out_grid, calls, call, result>>

\* startup_sequence, lines 228-233
StargazeDone ==
    /\ pc = "Stargazing"
    /\ pc' = "TickerScroll"
    /\ line' = 0
    /\ UNCHANGED <<m, ev, cleared>>
    /\ Idle

\* startup_sequence, lines 235-238
ScrollDone ==
    /\ pc = "TickerScroll"
    /\ pc' = "Pause"
    /\ UNCHANGED <<line, m, ev, cleared>>
    /\ Idle

\* the pause handing back to the first line's scroll
PauseDone_restarts ==
    /\ pc = "Pause"
    /\ line' = 0
    /\ pc' = "TickerScroll"
    /\ UNCHANGED <<m, ev, cleared>>
    /\ Idle

\* startup_sequence, lines 240-246
PauseDone ==
    /\ pc = "Pause"
    /\ line' = line + 1
    /\ pc' = IF line + 1 < NumTickerLines - 1 THEN "TickerScroll" ELSE "FinalScroll"
    /\ UNCHANGED <<m, ev, cleared>>
    /\ Idle

\* scroll_final_and_dawn, lines 189-194
FinalScrollDone ==
    /\ pc = "FinalScroll"
    /\ pc' = "Dawn"
    /\ UNCHANGED <<line, m, ev, cleared>>
    /\ Idle

\* scroll_final_and_dawn, lines 197-210, and main, lines 294-301
DawnDone ==
    /\ pc = "Dawn"
    /\ pc' = "Simulation"
    /\ m' = main_locals(bitmap_to_grid(find_bitmap, COLS, ROWS, 0, y_offset))
    /\ UNCHANGED <<line, ev, cleared>>
    /\ Idle

\* main, lines 304-361; the model stops the loop after limit generations
MainTickUpTo(limit) ==
    /\ pc = "Simulation"
    /\ m.gen_count < limit
    /\ \E pre \in {main_scripted(m, config, find_bitmap)} :
       \E rg \in GridDraws(main_reset_due(pre.locals, pre.current_pop), random_grid) :
       \E move \in MoveDraws(main_circadian_due(pre.locals)) :
          \E t \in {main_drawn(m, pre, rg, move)} :
             m' = t.locals /\ ev' = t.log
    /\ UNCHANGED <<pc, line, cleared>>
    /\ Idle

\* KeyboardInterrupt: caught by main's try (lines 303, 363-365) only inside the
\* simulation loop; startup_sequence runs before the try (line 292)
Interrupt ==
    /\ pc \in StartupPhases \cup {"Simulation"}
    /\ IF pc = "Simulation"
       THEN pc' = "Stopped" /\ cleared' = TRUE
       ELSE pc' = "Propagated" /\ cleared' = cleared
    /\ UNCHANGED <<line, m, ev>>
    /\ Idle

MainTick == MainTickUpTo(MaxGen)

Next ==
    \/ StargazeDone
    \/ ScrollDone
    \/ PauseDone
    \/ FinalScrollDone
    \/ DawnDone
    \/ MainTick
    \/ Interrupt

Spec == MainInit /\ [][Next]_vars

(***************************************************************************)
(* preview.py GameOfLife: the simulation_step callback, in the order of    *)
(* the code.  s holds the object's fields.                                 *)
(***************************************************************************)
\* GameOfLife.__init__, lines 206-211
GameOfLife_init ==
    [grid |-> "None", gen_count |-> 0, stale_count |-> 0, last_pop |-> 0,
     dissolving |-> FALSE, circadian_pos |-> CIRCADIAN_CENTER,
     canvas |-> NoFrame, frames |-> 0, static |-> 0, fresh |-> TRUE]

\* start_dissolve, lines 356-360, before its call of simulation_step
start_dissolve(s) ==
    [grid |-> s.grid, gen_count |-> 0, stale_count |-> 0, last_pop |-> 0,
     dissolving |-> TRUE, circadian_pos |-> s.circadian_pos, dissolve_phase |-> 1,
     canvas |-> s.canvas, frames |-> s.frames, static |-> s.static, fresh |-> TRUE]

\* lines 372-377
simulation_step_stale(s, current_pop) ==
    [s EXCEPT !.stale_count = IF current_pop = s.last_pop THEN s.stale_count + 1 ELSE 0,
              !.last_pop = current_pop]

\* lines 383-399
simulation_step_dissolve_keeps_stale(s, cfg, bitmap) ==
    LET idx == s.dissolve_phase - 1
    IN IF ~s.dissolving THEN s
       ELSE IF idx < Len(cfg.schedule) /\ s.gen_count >= cfg.schedule[idx + 1][1]
       THEN [s EXCEPT !.grid = overlay_bitmap_to_grid(bitmap, s.grid, 0,
                                                      cfg.schedule[idx + 1][2]),
                      !.dissolve_phase = s.dissolve_phase + 1]
       ELSE IF idx >= Len(cfg.schedule) /\ s.gen_count >= cfg.total
       THEN [s EXCEPT !.dissolving = FALSE, !.stale_count = 0]
       ELSE s

simulation_step_dissolve(s, cfg, bitmap) ==
    LET idx == s.dissolve_phase - 1
    IN IF ~s.dissolving THEN s
       ELSE IF idx < Len(cfg.schedule) /\ s.gen_count >= cfg.schedule[idx + 1][1]
       THEN [s EXCEPT !.grid = overlay_bitmap_to_grid(bitmap, s.grid, 0,
                                                      cfg.schedule[idx + 1][2]),
                      !.dissolve_phase = s.dissolve_phase + 1,
                      !.stale_count = 0]
       ELSE IF idx >= Len(cfg.schedule) /\ s.gen_count >= cfg.total
       THEN [s EXCEPT !.dissolving = FALSE, !.stale_count = 0]
       ELSE s

\* lines 401-402
simulation_step_reset_due(s, current_pop) ==
    ~s.dissolving /\ (s.stale_count >= STALE_RESET_GENS \/ current_pop = 0)

\* line 409: not nested under "if not self.dissolving"
simulation_step_circadian_due(s) ==
    s.gen_count % CIRCADIAN_STRIDE = 0

\* lines 366-399: the part of the callback before its random draws
simulation_step_scripted(s, cfg, bitmap) ==
    LET s1 == [render_grid(s) EXCEPT !.grid = next_generation(s.grid),
                                     !.gen_count = s.gen_count + 1]
        current_pop == population(s1.grid)
        s2 == simulation_step_stale(s1, current_pop)
        s3 == simulation_step_dissolve(s2, cfg, bitmap)
    IN [locals |-> s3,
        current_pop |-> current_pop,
        overlay |-> IF s3.dissolve_phase # s2.dissolve_phase THEN s2.dissolve_phase ELSE 0,
        cruise_entered |-> s2.dissolving /\ ~s3.dissolving]

\* lines 401-424: the rest of the callback
simulation_step_drawn(s, pre, rg, move) ==
    LET s3 == pre.locals
        resetting == simulation_step_reset_due(s3, pre.current_pop)
        s4 == IF resetting
              THEN [s3 EXCEPT !.grid = rg, !.stale_count = 0, !.fresh = TRUE]
              ELSE s3
        walking == simulation_step_circadian_due(s4)
        s5 == IF walking
              THEN [s4 EXCEPT !.circadian_pos = circadian_walk(s4.circadian_pos, move)]
              ELSE s4
    IN [locals |-> s5,
        log |-> [tick |-> TRUE,
                 overlay |-> pre.overlay,
                 cruise_entered |-> pre.cruise_entered,
                 reseeded |-> resetting,
                 walked |-> walking,
                 move |-> IF walking THEN move ELSE 0,
                 pos_before |-> s.circadian_pos,
                 current_pop |-> pre.current_pop,
                 pop_before |-> s.last_pop,
                 stale_before |-> s.stale_count,
                 delay |-> CIRCADIAN_STEPS[s5.circadian_pos + 1]]]

\* lines 364-424: one run of the callback
simulation_step(s, cfg, bitmap, rg, move) ==
    simulation_step_drawn(s, simulation_step_scripted(s, cfg, bitmap), rg, move)

(***************************************************************************)
(* preview.py as a state machine, from run's first callback on: each       *)
(* action is the timer callback that ends a phase, or one simulation_step. *)
(***************************************************************************)
PreviewInit ==
    /\ pc = "Stargazing"
    /\ line = 0
    /\ config = PreviewConfig
    /\ find_bitmap \in FindBitmaps
    /\ m = NoSim
    /\ ev = NoTick
    /\ self = GameOfLife_init
    /\ pev = NoTick
    /\ cleared = FALSE
    /\ in_grid = empty_grid
    /\ out_grid = empty_grid
    /\ calls = 0
    /\ call = NoCall
    /\ result = NoCall

PreviewIdleButLine == UNCHANGED <<config, find_bitmap, m, ev, cleared, in_grid, out_grid,
                                  calls, call, result>>

PreviewIdle == UNCHANGED line /\ PreviewIdleButLine

\* pause_then's tick with nothing remaining (line 320) calls run_ticker, whose
\* scroll_next(0) starts the first line (lines 338-350)
PreviewStargazeDone ==
    /\ pc = "Stargazing"
    /\ pc' = IF 0 < NumTickerLines - 1 THEN "TickerScroll" ELSE "FinalScroll"
    /\ line' = 0
    /\ UNCHANGED <<self, pev>>
    /\ PreviewIdleButLine

\* scroll_line's step once the text has left the panel (lines 256-258): its
\* callback starts the pause (line 344)
PreviewScrollDone ==
    /\ pc = "TickerScroll"
    /\ pc' = "Pause"
    /\ UNCHANGED <<line, self, pev>>
    /\ PreviewIdleButLine

\* pause_then's tick with nothing remaining calls scroll_next(idx + 1) (lines 345,
\* 339-350)
PreviewPauseDone ==
    /\ pc = "Pause"
    /\ line' = line + 1
    /\ pc' = IF line + 1 < NumTickerLines - 1 THEN "TickerScroll" ELSE "FinalScroll"
    /\ UNCHANGED <<self, pev>>
    /\ PreviewIdleButLine

\* scroll_final_line's step once x reaches x_stop calls dawn_transition (lines
\* 276-278)
PreviewFinalScrollDone ==
    /\ pc = "FinalScroll"
    /\ pc' = "Dawn"
    /\ UNCHANGED <<line, self, pev>>
    /\ PreviewIdleButLine

\* dawn_step once step_count reaches DAWN_STEPS (lines 294-300): builds the seed
\* grid and calls start_dissolve, which runs the first simulation_step (line 362)
PreviewStartDissolve ==
    /\ pc = "Dawn"
    /\ pc' = "Simulation"
    /\ \E s0 \in {start_dissolve([self EXCEPT
                     !.grid = bitmap_to_grid(find_bitmap, COLS, ROWS, 0, y_offset)])} :
       \E pre \in {simulation_step_scripted(s0, config, find_bitmap)} :
       \E rg \in GridDraws(simulation_step_reset_due(pre.locals, pre.current_pop),
                           random_grid) :
       \E move \in MoveDraws(simulation_step_circadian_due(pre.locals)) :
       \E t \in {simulation_step_drawn(s0, pre, rg, move)} :
          self' = t.locals /\ pev' = t.log
    /\ PreviewIdle

\* simulation_step run by root.after (line 424); the model stops the chain after
\* limit generations
PreviewSimulationStepUpTo(limit) ==
    /\ pc = "Simulation"
    /\ self.gen_count < limit
    /\ \E pre \in {simulation_step_scripted(self, config, find_bitmap)} :
       \E rg \in GridDraws(simulation_step_reset_due(pre.locals, pre.current_pop),
                           random_grid) :
       \E move \in MoveDraws(simulation_step_circadian_due(pre.locals)) :
       \E t \in {simulation_step_drawn(self, pre, rg, move)} :
          self' = t.locals /\ pev' = t.log
    /\ UNCHANGED pc
    /\ PreviewIdle

PreviewSimulationStep == PreviewSimulationStepUpTo(MaxGen)

PreviewNext ==
    \/ PreviewStargazeDone
    \/ PreviewScrollDone
    \/ PreviewPauseDone
    \/ PreviewFinalScrollDone
    \/ PreviewStartDissolve
    \/ PreviewSimulationStep

SpecPreview == PreviewInit /\ [][PreviewNext]_vars

(***************************************************************************)
(* The end-to-end scenario: main's loop run with the two-entry schedule    *)
(* [(4, y1), (7, y2)] and total threshold 10.                              *)
(***************************************************************************)
ScenarioMaxGen == 18

ScenarioOffsets == {FIND_Y_TOP, FIND_Y_BOT}

ScenarioConfigs ==
    { [schedule |-> << <<4, y1>>, <<7, y2>> >>, total |-> 10] :
        y1 \in ScenarioOffsets, y2 \in ScenarioOffsets }

ScenarioInit ==
    /\ pc = "Stargazing"
    /\ line = 0
    /\ config \in ScenarioConfigs
    /\ find_bitmap \in FindBitmaps
    /\ m = NoSim
    /\ ev = NoTick
    /\ self = NoSim
    /\ pev = NoSim
    /\ cleared = FALSE
    /\ in_grid = empty_grid
    /\ out_grid = empty_grid
    /\ calls = 0
    /\ call = NoCall
    /\ result = NoCall

ScenarioTick == MainTickUpTo(ScenarioMaxGen)

ScenarioNext ==
    \/ StargazeDone
    \/ ScrollDone
    \/ PauseDone
    \/ FinalScrollDone
    \/ DawnDone
    \/ ScenarioTick
    \/ Interrupt

SpecScenario == ScenarioInit /\ [][ScenarioNext]_vars

(***************************************************************************)
(* The two variants side by side: the blocking loop and the callback chain *)
(* start from the same seed grid, share the configuration and see the same *)
(* random_grid() outcomes; their circadian moves, hence their delays, are  *)
(* drawn independently.  Each action runs one tick of both.                *)
(***************************************************************************)
\* the word bitmaps and the random_grid() outcomes of the side-by-side run: a
\* word of constant population, a word that dies out, and seeds that settle
PairBitmaps ==
    { << <<0, 1, 0>>, <<0, 1, 0>>, <<0, 1, 0>> >>,
      << <<1, 0, 0>>, <<0, 0, 0>>, <<0, 0, 1>> >> }

PairRandomGrids ==
    { place_pattern(empty_grid, p, 0, 0) :
        p \in { {<<0, 0>>, <<0, 1>>, <<1, 0>>},
                {<<0, 0>>, <<0, 1>>, <<1, 0>>, <<1, 1>>} } }

PairInit ==
    /\ pc = "Dawn"
    /\ line = NumTickerLines - 1
    /\ config \in {MainConfig, PreviewConfig}
    /\ find_bitmap \in PairBitmaps
    /\ m = NoSim
    /\ ev = NoTick
    /\ self = GameOfLife_init
    /\ pev = NoTick
    /\ cleared = FALSE
    /\ in_grid = empty_grid
    /\ out_grid = empty_grid
    /\ calls = 0
    /\ call = NoCall
    /\ result = NoCall

PairIdle == UNCHANGED <<line, config, find_bitmap, cleared, in_grid, out_grid, calls, call, result>>

\* one tick of both from the locals s (main) and the fields o (preview)
PairRun(s, o) ==
    \E pre \in {main_scripted(s, config, find_bitmap)} :
    \E ppre \in {simulation_step_scripted(o, config, find_bitmap)} :
    \E rg \in GridDraws(\/ main_reset_due(pre.locals, pre.current_pop)
                        \/ simulation_step_reset_due(ppre.locals, ppre.current_pop),
                        PairRandomGrids) :
    \E move \in MoveDraws(main_circadian_due(pre.locals)) :
    \E pmove \in MoveDraws(simulation_step_circadian_due(ppre.locals)) :
    \E t \in {main_drawn(s, pre, rg, move)} :
    \E pt \in {simulation_step_drawn(o, ppre, rg, pmove)} :
        /\ m' = t.locals /\ ev' = t.log
        /\ self' = pt.locals /\ pev' = pt.log

\* main: scroll_final_and_dawn returns the seed grid and the loop makes its first
\* pass; preview: the last dawn_step calls start_dissolve
PairStart ==
    /\ pc = "Dawn"
    /\ pc' = "Simulation"
    /\ \E seed \in {bitmap_to_grid(find_bitmap, COLS, ROWS, 0, y_offset)} :
          PairRun(main_locals(seed), start_dissolve([self EXCEPT !.grid = seed]))
    /\ PairIdle

PairTick ==
    /\ pc = "Simulation"
    /\ m.gen_count < MaxGen
    /\ self.gen_count < MaxGen
    /\ PairRun(m, self)
    /\ UNCHANGED pc
    /\ PairIdle

PairNext ==
    \/ PairStart
    \/ PairTick

SpecPair == PairInit /\ [][PairNext]_vars

(***************************************************************************)
(* Harness for the grid engine: the input grids are every configuration of *)
(* one cell's neighbourhood (the cell and its eight neighbours), placed    *)
(* around every cell of the torus, so every neighbourhood occurs at every  *)
(* position, wrapped edges included.                                       *)
(***************************************************************************)
Window == {-1, 0, 1} \X {-1, 0, 1}

GridInit ==
    /\ \E pattern \in SUBSET Window : \E r0 \in Rows : \E c0 \in Cols :
          in_grid = place_pattern(empty_grid, pattern, r0, c0)
    /\ out_grid = in_grid
    /\ calls = 0
    /\ call = NoCall
    /\ result = NoCall
    /\ pc = "harness"
    /\ line = 0
    /\ config = NoSim
    /\ find_bitmap = << >>
    /\ m = NoSim
    /\ ev = NoSim
    /\ self = NoSim
    /\ pev = NoSim
    /\ cleared = FALSE

CallNextGeneration ==
    /\ pc = "harness"
    /\ calls < MaxCalls
    /\ in_grid' = out_grid
    /\ out_grid' = next_generation(out_grid)
    /\ calls' = calls + 1
    /\ UNCHANGED <<pc, line, config, find_bitmap, m, ev, self, pev, cleared, call, result>>

GridNext == CallNextGeneration

SpecGrid == GridInit /\ [][GridNext]_vars

(***************************************************************************)
(* The pattern catalog of patterns.py: lists of (row, col) offsets, kept   *)
(* as sets of <<row, col>>.                                                *)
(***************************************************************************)
BLOCK == {<<0, 0>>, <<0, 1>>, <<1, 0>>, <<1, 1>>}

BLINKER_bent == {<<0, 0>>, <<0, 1>>, <<1, 1>>}

BLINKER == {<<0, 0>>, <<0, 1>>, <<0, 2>>}

GLIDER_mirrored == {<<0, 1>>, <<1, 0>>, <<2, 0>>, <<2, 1>>, <<2, 2>>}

GLIDER == {<<0, 1>>, <<1, 2>>, <<2, 0>>, <<2, 1>>, <<2, 2>>}

(***************************************************************************)
(* Harness for the classic patterns: one of BLOCK, BLINKER, GLIDER is      *)
(* placed on an all-dead grid at any offset, wrapped edges included, and   *)
(* next_generation is applied to it repeatedly.  in_grid keeps the grid as *)
(* placed, out_grid the grid after `calls` generations.                    *)
(***************************************************************************)
\* number of generations the pattern harness runs
PatternCalls == 4

PatternByName(name) ==
    CASE name = "block" -> BLOCK
      [] name = "blinker" -> BLINKER
      [] name = "glider" -> GLIDER

PatternInit ==
    /\ \E name \in {"block", "blinker", "glider"} : \E r0 \in Rows : \E c0 \in Cols :
          /\ call = [name |-> "place_pattern", pattern |-> name,
                     row_offset |-> r0, col_offset |-> c0]
          /\ in_grid = place_pattern(empty_grid, PatternByName(name), r0, c0)
    /\ out_grid = in_grid
    /\ calls = 0
    /\ result = NoCall
    /\ pc = "patterns"
    /\ line = 0
    /\ config = NoSim
    /\ find_bitmap = << >>
    /\ m = NoSim
    /\ ev = NoSim
    /\ self = NoSim
    /\ pev = NoSim
    /\ cleared = FALSE

PatternGeneration ==
    /\ pc = "patterns"
    /\ calls < PatternCalls
    /\ out_grid' = next_generation(out_grid)
    /\ calls' = calls + 1
    /\ UNCHANGED <<pc, line, config, find_bitmap, m, ev, self, pev, cleared,
                   in_grid, call, result>>

PatternNext == PatternGeneration

SpecPattern == PatternInit /\ [][PatternNext]_vars


(***************************************************************************)
(* Harness for random_grid: the draws of random.random(), one per cell in  *)
(* row-major order, and the density are the inputs.  Draws and densities   *)
(* are in hundredths: a draw u in [0, 1) is one of 0 .. 99, INITIAL_DENSITY *)
(* 0.20 is 20 and density 1 is 100.  The draws of the top-left 2x2 cells   *)
(* vary independently and the remaining cells share one draw.              *)
(***************************************************************************)
INITIAL_DENSITY == 20

\* 1 if random.random() <= density else 0
random_grid_from_inclusive(draws, density) ==
    [r \in Rows |-> [c \in Cols |-> IF draws[<<r, c>>] <= density THEN 1 ELSE 0]]

\* 1 if random.random() < INITIAL_DENSITY else 0, for each column of each row
random_grid_from(draws, density) ==
    [r \in Rows |-> [c \in Cols |-> IF draws[<<r, c>>] < density THEN 1 ELSE 0]]

DrawValues == {0, INITIAL_DENSITY - 1, INITIAL_DENSITY, 99}

Densities == {0, INITIAL_DENSITY, 100}

SeedDraws ==
    { [q \in Rows \X Cols |-> IF q \in DOMAIN corner THEN corner[q] ELSE rest] :
        corner \in [{0, 1} \X {0, 1} -> DrawValues], rest \in DrawValues }

SeedInit ==
    /\ \E density \in Densities : \E draws \in SeedDraws :
          call = [name |-> "random_grid", density |-> density, draws |-> draws]
    /\ result = NoCall
    /\ pc = "seeding"
    /\ line = 0
    /\ config = NoSim
    /\ find_bitmap = << >>
    /\ m = NoSim
    /\ ev = NoSim
    /\ self = NoSim
    /\ pev = NoSim
    /\ cleared = FALSE
    /\ in_grid = empty_grid
    /\ out_grid = empty_grid
    /\ calls = 0

CallRandomGrid ==
    /\ pc = "seeding"
    /\ result = NoCall
    /\ result' = [name |-> "random_grid", grid |-> random_grid_from(call.draws, call.density)]
    /\ UNCHANGED <<pc, line, config, find_bitmap, m, ev, self, pev, cleared,
                   in_grid, out_grid, calls, call>>

SeedNext == CallRandomGrid

SpecSeed == SeedInit /\ [][SeedNext]_vars


(***************************************************************************)
(* Harness for the overlays: onto a grid that already holds live cells     *)
(* (in_grid) one overlay is applied, giving out_grid: the bitmap overlay   *)
(* at any offset, on or off the grid; a scheduled overlay of main's        *)
(* dissolve; or place_pattern at any offset.                               *)
(***************************************************************************)
OverlayGrids == { place_pattern(empty_grid, p, r0, 0) : p \in RandomPatterns, r0 \in Rows }

\* offsets from wholly left of / above the grid to wholly right of / below it
XOffsets == (0 - CHAR_HEIGHT) .. COLS
YOffsets == (0 - CHAR_HEIGHT) .. ROWS

OverlayInit ==
    /\ in_grid \in OverlayGrids
    /\ find_bitmap \in FindBitmaps
    /\ out_grid = in_grid
    /\ call = NoCall
    /\ result = NoCall
    /\ pc = "overlays"
    /\ line = 0
    /\ config = MainConfig
    /\ m = NoSim
    /\ ev = NoSim
    /\ self = NoSim
    /\ pev = NoSim
    /\ cleared = FALSE
    /\ calls = 0

OverlayIdle == UNCHANGED <<pc, line, config, find_bitmap, m, ev, self, pev, cleared,
                           in_grid, calls, result>>

\* overlay_bitmap_to_grid(bitmap, grid, x_offset, y_offset)
CallOverlay ==
    /\ pc = "overlays" /\ call = NoCall
    /\ \E x \in XOffsets : \E y \in YOffsets :
          /\ call' = [name |-> "overlay_bitmap_to_grid", x_offset |-> x, y_offset |-> y]
          /\ out_grid' = overlay_bitmap_to_grid(find_bitmap, in_grid, x, y)
    /\ OverlayIdle

\* main, lines 320-330: the pass of the loop in which overlay k of the schedule is due
CallDissolveOverlay ==
    /\ pc = "overlays" /\ call = NoCall
    /\ \E k \in 1 .. Len(config.schedule) :
          LET s == [main_locals(in_grid) EXCEPT !.gen_count = config.schedule[k][1],
                                               !.dissolve_phase = k]
          IN /\ call' = [name |-> "main_dissolve", x_offset |-> 0,
                         y_offset |-> config.schedule[k][2]]
             /\ out_grid' = main_dissolve(s, config, find_bitmap).grid
    /\ OverlayIdle

\* place_pattern(grid, pattern, row_offset, col_offset)
CallPlacePattern ==
    /\ pc = "overlays" /\ call = NoCall
    /\ \E name \in {"block", "blinker", "glider"} : \E r0 \in Rows : \E c0 \in Cols :
          /\ call' = [name |-> "place_pattern", pattern |-> name,
                      row_offset |-> r0, col_offset |-> c0]
          /\ out_grid' = place_pattern(in_grid, PatternByName(name), r0, c0)
    /\ OverlayIdle

OverlayNext ==
    \/ CallOverlay
    \/ CallDissolveOverlay
    \/ CallPlacePattern

SpecOverlay == OverlayInit /\ [][OverlayNext]_vars


(***************************************************************************)
(* The rest of the catalog, and PATTERNS: the dict's entries in the order  *)
(* they are written, which is the order of PATTERNS.keys().  A name is the *)
(* sequence of its characters, so that sorted() can compare names as       *)
(* Python compares strings, by code point.                                 *)
(***************************************************************************)
BEEHIVE == {<<0, 1>>, <<0, 2>>, <<1, 0>>, <<1, 3>>, <<2, 1>>, <<2, 2>>}

LOAF == {<<0, 1>>, <<0, 2>>, <<1, 0>>, <<1, 3>>, <<2, 1>>, <<2, 3>>, <<3, 2>>}

BOAT == {<<0, 0>>, <<0, 1>>, <<1, 0>>, <<1, 2>>, <<2, 1>>}

TUB == {<<0, 1>>, <<1, 0>>, <<1, 2>>, <<2, 1>>}

TOAD == {<<0, 1>>, <<0, 2>>, <<0, 3>>, <<1, 0>>, <<1, 1>>, <<1, 2>>}

BEACON == {<<0, 0>>, <<0, 1>>, <<1, 0>>, <<2, 3>>, <<3, 2>>, <<3, 3>>}

PULSAR ==
    {<<0, 2>>, <<0, 3>>, <<0, 4>>, <<0, 8>>, <<0, 9>>, <<0, 10>>,
     <<2, 0>>, <<2, 5>>, <<2, 7>>, <<2, 12>>, <<3, 0>>, <<3, 5>>,
     <<3, 7>>, <<3, 12>>, <<4, 0>>, <<4, 5>>, <<4, 7>>, <<4, 12>>,
     <<5, 2>>, <<5, 3>>, <<5, 4>>, <<5, 8>>, <<5, 9>>, <<5, 10>>,
     <<7, 2>>, <<7, 3>>, <<7, 4>>, <<7, 8>>, <<7, 9>>, <<7, 10>>,
     <<8, 0>>, <<8, 5>>, <<8, 7>>, <<8, 12>>, <<9, 0>>, <<9, 5>>,
     <<9, 7>>, <<9, 12>>, <<10, 0>>, <<10, 5>>, <<10, 7>>, <<10, 12>>,
     <<12, 2>>, <<12, 3>>, <<12, 4>>, <<12, 8>>, <<12, 9>>, <<12, 10>>}

PENTADECATHLON ==
    {<<0, 1>>, <<1, 1>>, <<2, 0>>, <<2, 2>>, <<3, 1>>, <<4, 1>>, <<5, 1>>,
     <<6, 1>>, <<7, 0>>, <<7, 2>>, <<8, 1>>, <<9, 1>>}

LWSS ==
    {<<0, 1>>, <<0, 4>>, <<1, 0>>, <<2, 0>>, <<2, 4>>, <<3, 0>>, <<3, 1>>,
     <<3, 2>>, <<3, 3>>}

MWSS ==
    {<<0, 2>>, <<1, 0>>, <<1, 4>>, <<2, 5>>, <<3, 0>>, <<3, 5>>, <<4, 1>>,
     <<4, 2>>, <<4, 3>>, <<4, 4>>, <<4, 5>>}

HWSS ==
    {<<0, 2>>, <<0, 3>>, <<1, 0>>, <<1, 5>>, <<2, 6>>, <<3, 0>>, <<3, 6>>,
     <<4, 1>>, <<4, 2>>, <<4, 3>>, <<4, 4>>, <<4, 5>>, <<4, 6>>}

GOSPER_GLIDER_GUN ==
    {<<0, 24>>, <<1, 22>>, <<1, 24>>, <<2, 12>>, <<2, 13>>, <<2, 20>>,
     <<2, 21>>, <<2, 34>>, <<2, 35>>, <<3, 11>>, <<3, 15>>, <<3, 20>>,
     <<3, 21>>, <<3, 34>>, <<3, 35>>, <<4, 0>>, <<4, 1>>, <<4, 10>>,
     <<4, 16>>, <<4, 20>>, <<4, 21>>, <<5, 0>>, <<5, 1>>, <<5, 10>>,
     <<5, 14>>, <<5, 16>>, <<5, 17>>, <<5, 22>>, <<5, 24>>, <<6, 10>>,
     <<6, 16>>, <<6, 24>>, <<7, 11>>, <<7, 15>>, <<8, 12>>, <<8, 13>>}

R_PENTOMINO == {<<0, 1>>, <<0, 2>>, <<1, 0>>, <<1, 1>>, <<2, 1>>}

DIEHARD == {<<0, 6>>, <<1, 0>>, <<1, 1>>, <<2, 1>>, <<2, 5>>, <<2, 6>>, <<2, 7>>}

ACORN == {<<0, 1>>, <<1, 3>>, <<2, 0>>, <<2, 1>>, <<2, 4>>, <<2, 5>>, <<2, 6>>}

PATTERNS ==
    <<
       <<<<"b", "l", "o", "c", "k">>, BLOCK>>,
       <<<<"b", "e", "e", "h", "i", "v", "e">>, BEEHIVE>>,
       <<<<"l", "o", "a", "f">>, LOAF>>,
       <<<<"b", "o", "a", "t">>, BOAT>>,
       <<<<"t", "u", "b">>, TUB>>,
       <<<<"b", "l", "i", "n", "k", "e", "r">>, BLINKER>>,
       <<<<"t", "o", "a", "d">>, TOAD>>,
       <<<<"b", "e", "a", "c", "o", "n">>, BEACON>>,
       <<<<"p", "u", "l", "s", "a", "r">>, PULSAR>>,
       <<<<"p", "e", "n", "t", "a", "d", "e", "c", "a", "t", "h", "l", "o", "n">>, PENTADECATHLON>>,
       <<<<"g", "l", "i", "d", "e", "r">>, GLIDER>>,
       <<<<"l", "w", "s", "s">>, LWSS>>,
       <<<<"m", "w", "s", "s">>, MWSS>>,
       <<<<"h", "w", "s", "s">>, HWSS>>,
       <<<<"g", "o", "s", "p", "e", "r", "_", "g", "l", "i", "d", "e", "r", "_", "g", "u", "n">>, GOSPER_GLIDER_GUN>>,
       <<<<"r", "_", "p", "e", "n", "t", "o", "m", "i", "n", "o">>, R_PENTOMINO>>,
       <<<<"d", "i", "e", "h", "a", "r", "d">>, DIEHARD>>,
       <<<<"a", "c", "o", "r", "n">>, ACORN>>
    >>

\* ord(ch) of the characters of the catalog's names
ord ==
    "_" :> 95 @@ "a" :> 97 @@ "b" :> 98 @@ "c" :> 99 @@ "d" :> 100 @@ "e" :> 101 @@ "f" :> 102 @@ "g" :> 103 @@ "h" :> 104 @@ "i" :> 105 @@ "k" :> 107 @@
    "l" :> 108 @@ "m" :> 109 @@ "n" :> 110 @@ "o" :> 111 @@ "p" :> 112 @@ "r" :> 114 @@ "s" :> 115 @@ "t" :> 116 @@ "u" :> 117 @@
    "v" :> 118 @@ "w" :> 119

\* a < b for two names, as Python compares strings
str_less(a, b) ==
    \E i \in 1 .. (Len(a) + 1) :
        /\ i <= Len(b)
        /\ \A j \in 1 .. (i - 1) : a[j] = b[j]
        /\ (i = Len(a) + 1 \/ ord[a[i]] < ord[b[i]])

\* sorted(names) for names that differ from each other, as a dict's keys do: the
\* name at position i is the one with i - 1 names below it
sorted(names) ==
    [i \in 1 .. Len(names) |->
        names[CHOOSE j \in 1 .. Len(names) :
                Cardinality({ k \in 1 .. Len(names) : str_less(names[k], names[j]) }) = i - 1]]

\* PATTERNS.keys()
keys(catalog) == [i \in 1 .. Len(catalog) |-> catalog[i][1]]

\* an argument left at its default None, and one given
None == << >>
Given(v) == <<v>>

max_of(S) == CHOOSE x \in S : \A y \in S : y <= x

\* load_pattern that falls back to an empty pattern for an unknown name
load_pattern_lenient(catalog, name, row_offset, col_offset) ==
    LET known == { i \in 1 .. Len(catalog) : catalog[i][1] = name }
        pattern == IF known = {} THEN {<<0, 0>>} ELSE catalog[CHOOSE i \in known : TRUE][2]
        max_r == max_of({ p[1] : p \in pattern })
        max_c == max_of({ p[2] : p \in pattern })
        ro == IF row_offset = None THEN (ROWS - max_r) \div 2 ELSE row_offset[1]
        co == IF col_offset = None THEN (COLS - max_c) \div 2 ELSE col_offset[1]
    IN [raised |-> "none",
        grid |-> IF known = {} THEN empty_grid
                 ELSE place_pattern(empty_grid, pattern, ro, co)]

\* load_pattern(name, rows=ROWS, cols=COLS, row_offset, col_offset), reading the
\* module's PATTERNS (catalog); the ValueError's message is made of the name and of
\* the sorted names joined by ", "
load_pattern(catalog, name, row_offset, col_offset) ==
    LET known == { i \in 1 .. Len(catalog) : catalog[i][1] = name }
    IN IF known = {}
       THEN [raised |-> "ValueError", name |-> name, available |-> sorted(keys(catalog))]
       ELSE LET pattern == catalog[CHOOSE i \in known : TRUE][2]
                max_r == max_of({ p[1] : p \in pattern })
                max_c == max_of({ p[2] : p \in pattern })
                ro == IF row_offset = None THEN (ROWS - max_r) \div 2 ELSE row_offset[1]
                co == IF col_offset = None THEN (COLS - max_c) \div 2 ELSE col_offset[1]
            IN [raised |-> "none", grid |-> place_pattern(empty_grid, pattern, ro, co)]

(***************************************************************************)
(* Harness for load_pattern: a caller makes LoadCalls calls, each with a   *)
(* name of the catalog or an unknown one and with offsets given or left at *)
(* None, and goes on after a ValueError.  config holds the module's        *)
(* PATTERNS, call the last call's arguments and whether an earlier call    *)
(* has failed, result what the last call returned or raised.               *)
(***************************************************************************)
LoadCalls == 2

UnknownNames == { <<"g", "u", "n">>, << >> }

LoadNames == { PATTERNS[i][1] : i \in 1 .. Len(PATTERNS) } \cup UnknownNames

LoadInit ==
    /\ config = [PATTERNS |-> PATTERNS]
    /\ call = NoCall
    /\ result = NoCall
    /\ calls = 0
    /\ pc = "loading"
    /\ line = 0
    /\ find_bitmap = << >>
    /\ m = NoSim
    /\ ev = NoSim
    /\ self = NoSim
    /\ pev = NoSim
    /\ cleared = FALSE
    /\ in_grid = empty_grid
    /\ out_grid = empty_grid

CallLoadPattern ==
    /\ pc = "loading"
    /\ calls < LoadCalls
    /\ \E name \in LoadNames :
       \E row_offset \in {None, Given(ROWS - 1)} :
       \E col_offset \in {None, Given(COLS - 1)} :
          /\ call' = [name |-> "load_pattern", pattern |-> name,
                      row_offset |-> row_offset, col_offset |-> col_offset,
                      after_failure |-> (calls > 0 /\ (call.after_failure
                                                       \/ result.raised = "ValueError"))]
          /\ result' = load_pattern(config.PATTERNS, name, row_offset, col_offset)
    /\ calls' = calls + 1
    /\ UNCHANGED <<pc, line, config, find_bitmap, m, ev, self, pev, cleared,
                   in_grid, out_grid>>

LoadNext == CallLoadPattern

SpecLoad == LoadInit /\ [][LoadNext]_vars


(***************************************************************************)
(* The show from its first phase on, in either variant: game_of_life.py    *)
(* (self is unused) or preview.py (self holds the GameOfLife object).      *)
(* ShowRun is the step the running variant takes next; with no interrupt,  *)
(* every sleep returning and every timer callback being run, that step is  *)
(* always eventually taken (SpecShowFair).                                 *)
(***************************************************************************)
\* generations the show specifications run for
ShowMaxGen == 21

ShowInit == MainInit \/ PreviewInit

MainShowTick == MainTickUpTo(ShowMaxGen)

PreviewShowStep == PreviewSimulationStepUpTo(ShowMaxGen)

MainShowRun ==
    \/ StargazeDone
    \/ ScrollDone
    \/ PauseDone
    \/ FinalScrollDone
    \/ DawnDone
    \/ MainShowTick

PreviewShowRun ==
    \/ PreviewStargazeDone
    \/ PreviewScrollDone
    \/ PreviewPauseDone
    \/ PreviewFinalScrollDone
    \/ PreviewStartDissolve
    \/ PreviewShowStep

ShowRun ==
    \/ (self = NoSim /\ MainShowRun)
    \/ (self # NoSim /\ PreviewShowRun)

ShowNext ==
    \/ ShowRun
    \/ (self = NoSim /\ Interrupt)

SpecShow == ShowInit /\ [][ShowNext]_vars

SpecShowFair == ShowInit /\ [][ShowRun]_vars /\ WF_vars(ShowRun)


(***************************************************************************)
(* game_of_life.py / preview.py StarField: the stars of the night frames.  *)
(* A star is the pair <<row, column>>; its twinkle phase only sets when it *)
(* is lit, which the frames below choose freely.                           *)
(***************************************************************************)
NUM_STARS == 12

\* random.sample(population, k) for the draw-th outcome: k elements of the
\* population, no element taken twice; ValueError when k is out of range
random_sample(pop, k, draw) ==
    IF k < 0 \/ k > Len(pop)
    THEN [raised |-> "ValueError", chosen |-> << >>]
    ELSE [raised |-> "none",
          chosen |-> [i \in 1 .. k |-> pop[((draw + i - 2) % Len(pop)) + 1]]]

\* the outcomes of random.sample the model draws from
SampleDraws(pop) == 1 .. (IF Len(pop) = 0 THEN 1 ELSE Len(pop))

\* lines 116-119: the cells outside the text band, row by row
sky_pixels(text_top, text_bot) ==
    LET cells == [i \in 1 .. ROWS * COLS |-> <<(i - 1) \div COLS, (i - 1) % COLS>>]
        in_sky(p) == p[1] < text_top \/ p[1] >= text_bot
    IN SelectSeq(cells, in_sky)

\* __init__ asking for NUM_STARS stars however small the sky
StarField_init_no_min(y_offset_arg, char_height, draw) ==
    LET sky == sky_pixels(y_offset_arg, y_offset_arg + char_height)
        sample == random_sample(sky, NUM_STARS, draw)
    IN [raised |-> sample.raised, stars |-> sample.chosen]

\* StarField.__init__, lines 113-123
StarField_init(y_offset_arg, char_height, draw) ==
    LET sky == sky_pixels(y_offset_arg, y_offset_arg + char_height)
        k == IF NUM_STARS < Len(sky) THEN NUM_STARS ELSE Len(sky)
        sample == random_sample(sky, k, draw)
    IN [raised |-> sample.raised, stars |-> sample.chosen]

\* the night frames the harness runs
StarFrames == 2

StarsInit ==
    /\ pc = "construct"
    /\ call = NoCall
    /\ result = NoCall
    /\ calls = 0
    /\ config = MainConfig
    /\ line = 0
    /\ find_bitmap = << >>
    /\ m = NoSim
    /\ ev = NoSim
    /\ self = NoSim
    /\ pev = NoSim
    /\ cleared = FALSE
    /\ in_grid = empty_grid
    /\ out_grid = empty_grid

\* StarField(y_offset, char_height), for any band
CallStarField ==
    /\ pc = "construct"
    /\ \E y \in (0 - 1) .. ROWS :
       \E char_height \in 0 .. (ROWS + 1) :
       \E draw \in SampleDraws(sky_pixels(y, y + char_height)) :
          /\ call' = [name |-> "StarField", y_offset |-> y,
                      char_height |-> char_height]
          /\ result' = StarField_init(y, char_height, draw)
    /\ pc' = IF result'.raised = "none" THEN "stargazing" ELSE "raised"
    /\ UNCHANGED <<calls, line, config, find_bitmap, m, ev, self, pev, cleared,
                   in_grid, out_grid>>

\* render_night_frame with no text, lines 153-160: the stars lit in this
\* frame are drawn at their positions; out_grid holds the star pixels drawn
StarsRenderNightFrame ==
    /\ pc = "stargazing"
    /\ calls < StarFrames
    /\ \E lit \in {0, Len(result.stars) \div 2, Len(result.stars)} :
          out_grid' = [r \in Rows |-> [c \in Cols |->
                         IF \E i \in 1 .. lit : result.stars[i] = <<r, c>>
                         THEN 1 ELSE 0]]
    /\ calls' = calls + 1
    /\ UNCHANGED <<pc, call, result, line, config, find_bitmap, m, ev, self, pev,
                   cleared, in_grid>>

StarsNext == CallStarField \/ StarsRenderNightFrame

SpecStars == StarsInit /\ [][StarsNext]_vars


(***************************************************************************)
(* The night frames of the startup sequence, frame by frame: scroll_line,  *)
(* the final scroll and the dawn transition, in game_of_life.py (loops)    *)
(* and in preview.py (self # NoSim; chains of timer callbacks).  call      *)
(* holds the locals of the running function and result what the matrix     *)
(* was last made to show, with the number of frames of the phase so far.   *)
(* A colour is <<red, green, blue>>; the star multiplier is                *)
(* star_num / DAWN_STEPS.                                                  *)
(***************************************************************************)
DAWN_STEPS == 50

NIGHT_COLOR == <<0, 0, 0>>

DEAD_COLOR == <<0, 0, 255>>

\* bubble_font: the pixel columns of one character of a line
CELL_WIDTH == 2

\* the widest line and the longest final line the model scrolls
MaxTextWidth == 4
MaxTextLen == 6

\* lerp_color with t = num / den: int() of a value between two channels,
\* none negative, is its floor
lerp_color(c1, c2, num, den) ==
    [i \in 1 .. 3 |-> (c1[i] * den + (c2[i] - c1[i]) * num) \div den]

\* render_night_frame followed by the swap: one more frame on the matrix,
\* with the bitmap ("line" or "find") at x_offset, the last word's left edge
\* at column word_col, the given background and star multiplier
render_night_frame(shown, bitmap, x_offset, word_col, bg_rgb, star_num) ==
    [shown EXCEPT !.frames = shown.frames + 1,
                  !.bitmap = bitmap,
                  !.x_offset = x_offset,
                  !.word_col = word_col,
                  !.bg = bg_rgb,
                  !.star_num = star_num]

NoFrames ==
    [frames |-> 0, bitmap |-> "none", x_offset |-> 0, word_col |-> 0,
     bg |-> NIGHT_COLOR, star_num |-> DAWN_STEPS, returns |-> 0, seeds |-> 0]

\* scroll_line is entered with some line: x = COLS (line 172; preview.py 266)
NightInit ==
    /\ pc = "TickerScroll"
    /\ \E text_width \in 0 .. MaxTextWidth :
          call = [name |-> "scroll_line", text_width |-> text_width, x |-> COLS]
    /\ result = NoFrames
    /\ self \in {NoSim, GameOfLife_init}
    /\ config = IF self = NoSim THEN MainConfig ELSE PreviewConfig
    /\ find_bitmap \in FindBitmaps
    /\ calls = 0
    /\ line = 0
    /\ m = NoSim
    /\ ev = NoSim
    /\ pev = NoSim
    /\ cleared = FALSE
    /\ in_grid = empty_grid
    /\ out_grid = empty_grid

NightIdle == UNCHANGED <<config, find_bitmap, m, ev, self, pev, cleared, in_grid, calls, line>>

\* scroll_line moving the line two pixels a frame
ScrollLineFrame_two_pixels ==
    /\ pc = "TickerScroll"
    /\ call.x > 0 - call.text_width
    /\ result' = render_night_frame(result, "line", call.x, 0, NIGHT_COLOR, DAWN_STEPS)
    /\ call' = [call EXCEPT !.x = call.x - 2]
    /\ UNCHANGED <<pc, out_grid>>
    /\ NightIdle


\* scroll_line, lines 173-177 (preview.py 259-262): one frame, one pixel left
ScrollLineFrame ==
    /\ pc = "TickerScroll"
    /\ IF self = NoSim
       THEN call.x > 0 - call.text_width
       ELSE ~(call.x <= 0 - call.text_width)
    /\ result' = render_night_frame(result, "line", call.x, 0, NIGHT_COLOR, DAWN_STEPS)
    /\ call' = [call EXCEPT !.x = call.x - 1]
    /\ UNCHANGED <<pc, out_grid>>
    /\ NightIdle

\* scroll_line returning, line 178 (preview.py 255-257: callback()), and the
\* final scroll being entered with a line that ends in "find", lines 182-188
\* (preview.py 269-272, 286)
ScrollLineReturn ==
    /\ pc = "TickerScroll"
    /\ IF self = NoSim
       THEN ~(call.x > 0 - call.text_width)
       ELSE call.x <= 0 - call.text_width
    /\ pc' = "FinalScroll"
    /\ \E text_len \in 4 .. MaxTextLen :
          call' = [name |-> "scroll_final", x |-> COLS,
                   find_start |-> (text_len - 4) * CELL_WIDTH,
                   x_stop |-> 0 - (text_len - 4) * CELL_WIDTH,
                   step |-> 0]
    /\ result' = [NoFrames EXCEPT !.returns = result.returns + 1]
    /\ UNCHANGED out_grid
    /\ NightIdle

\* the final scroll, lines 189-193 (preview.py 279-282)
FinalScrollFrame ==
    /\ pc = "FinalScroll"
    /\ IF self = NoSim THEN call.x > call.x_stop ELSE ~(call.x <= call.x_stop)
    /\ result' = render_night_frame(result, "line", call.x, call.x + call.find_start,
                                    NIGHT_COLOR, DAWN_STEPS)
    /\ call' = [call EXCEPT !.x = call.x - 1]
    /\ UNCHANGED <<pc, out_grid>>
    /\ NightIdle

\* the loop ends, line 189 (preview.py 275-277: dawn_transition is called)
FinalScrollEnd ==
    /\ pc = "FinalScroll"
    /\ IF self = NoSim THEN ~(call.x > call.x_stop) ELSE call.x <= call.x_stop
    /\ pc' = "Dawn"
    /\ result' = [result EXCEPT !.frames = 0]
    /\ UNCHANGED <<call, out_grid>>
    /\ NightIdle

\* one dawn frame, lines 199-206 (preview.py 301-309)
DawnFrame ==
    /\ pc = "Dawn"
    /\ IF self = NoSim THEN call.step < DAWN_STEPS ELSE ~(call.step >= DAWN_STEPS)
    /\ result' = render_night_frame(
                    result, "find", 0, 0,
                    lerp_color(NIGHT_COLOR, DEAD_COLOR, call.step, DAWN_STEPS),
                    DAWN_STEPS - call.step)
    /\ call' = [call EXCEPT !.step = call.step + 1]
    /\ UNCHANGED <<pc, out_grid>>
    /\ NightIdle

\* the seed grid, lines 208-210 (preview.py 294-300)
DawnSeed ==
    /\ pc = "Dawn"
    /\ IF self = NoSim THEN ~(call.step < DAWN_STEPS) ELSE call.step >= DAWN_STEPS
    /\ pc' = "Simulation"
    /\ out_grid' = bitmap_to_grid(find_bitmap, COLS, ROWS, 0, y_offset)
    /\ result' = [result EXCEPT !.seeds = result.seeds + 1,
                                !.returns = result.returns + 1]
    /\ UNCHANGED call
    /\ NightIdle

NightNext ==
    \/ ScrollLineFrame
    \/ ScrollLineReturn
    \/ FinalScrollFrame
    \/ FinalScrollEnd
    \/ DawnFrame
    \/ DawnSeed

SpecNight == NightInit /\ [][NightNext]_vars

\* every sleep returns and every timer callback is run
SpecNightFair == SpecNight /\ WF_vars(NightNext)


(***************************************************************************)
(* The show of either variant run long enough for the stale reset of both: *)
(* the preview enters Cruise at generation 20 and a grid gone stale there  *)
(* is reseeded STALE_RESET_GENS generations later.                         *)
(***************************************************************************)
RunMaxGen == 72

MainRunTick == MainTickUpTo(RunMaxGen)

PreviewRunStep == PreviewSimulationStepUpTo(RunMaxGen)

RunNext ==
    \/ /\ self = NoSim
       /\ \/ StargazeDone
          \/ ScrollDone
          \/ PauseDone
          \/ FinalScrollDone
          \/ DawnDone
          \/ MainRunTick
    \/ /\ self # NoSim
       /\ \/ PreviewStargazeDone
          \/ PreviewScrollDone
          \/ PreviewPauseDone
          \/ PreviewFinalScrollDone
          \/ PreviewStartDissolve
          \/ PreviewRunStep

SpecRun == ShowInit /\ [][RunNext]_vars


(***************************************************************************)
(* C1: next_generation(g)[r][c] is 1 exactly when (g[r][c] = 1 and n is 2  *)
(* or 3) or (g[r][c] = 0 and n = 3), n being the number of live cells      *)
(* among the eight toroidal neighbours of (r, c); every other cell is 0.   *)
(***************************************************************************)
TorusNeighbours(r, c) ==
    { <<(r + dr) % ROWS, (c + dc) % COLS>> :
        <<dr, dc>> \in ({-1, 0, 1} \X {-1, 0, 1}) \ {<<0, 0>>} }

LiveNeighbours(g, r, c) == Cardinality({ q \in TorusNeighbours(r, c) : g[q[1]][q[2]] = 1 })

C1_LifeRule ==
    calls > 0 =>
        /\ DOMAIN out_grid = Rows
        /\ \A r \in Rows :
              /\ DOMAIN out_grid[r] = Cols
              /\ \A c \in Cols :
                    LET n == LiveNeighbours(in_grid, r, c)
                        alive == \/ (in_grid[r][c] = 1 /\ n \in {2, 3})
                                 \/ (in_grid[r][c] = 0 /\ n = 3)
                    IN out_grid[r][c] = (IF alive THEN 1 ELSE 0)

\* a live cell on the wrapped corner survives with neighbours across both edges,
\* and a dead cell is born from three neighbours
C1_Witness ==
    /\ calls > 0
    /\ in_grid[0][0] = 1 /\ out_grid[0][0] = 1
    /\ in_grid[ROWS - 1][COLS - 1] = 1
    /\ in_grid[0][COLS - 1] = 1
    /\ \E r \in Rows, c \in Cols : in_grid[r][c] = 0 /\ out_grid[r][c] = 1
    /\ \E r \in Rows, c \in Cols : in_grid[r][c] = 1 /\ out_grid[r][c] = 0

\* the number of live cells of a grid, counted as a set
LiveCells(g) == Cardinality({ q \in Rows \X Cols : g[q[1]][q[2]] = 1 })

(***************************************************************************)
(* C2: with thresholds [4, 7, 9, 10] main's loop applies the schedule      *)
(* entries in order and exactly once each: entry k is overlaid in the tick *)
(* in which gen_count equals its threshold (ticks 4, 7, 9, 10), in no      *)
(* other tick, and never once the schedule is exhausted or Cruise has been *)
(* entered.                                                                *)
(***************************************************************************)
C2_ScheduleOnce ==
    ev.tick =>
        /\ ev.overlay = (CASE m.gen_count = 4 -> 1
                           [] m.gen_count = 7 -> 2
                           [] m.gen_count = 9 -> 3
                           [] m.gen_count = 10 -> 4
                           [] OTHER -> 0)
        /\ m.dissolve_phase = 1 + Cardinality({ g \in {4, 7, 9, 10} : g <= m.gen_count })
        /\ (~m.dissolving => ev.overlay = 0)
        /\ (m.gen_count > 10 => ev.overlay = 0)

C2_Witness ==
    /\ ev.tick
    /\ m.gen_count = 10
    /\ ev.overlay = 4
    /\ m.dissolve_phase = 5
    /\ m.dissolving

(***************************************************************************)
(* C3: with schedule [(4, y1), (7, y2)] and total threshold 10, from       *)
(* gen_count = 0 and dissolving = true, the first overlay is applied in    *)
(* the tick where gen_count becomes 4 and Cruise is entered in the tick    *)
(* where gen_count becomes 10, and in no earlier tick.                     *)
(***************************************************************************)
C3_ScenarioTiming ==
    ev.tick =>
        /\ (ev.overlay = 1 <=> m.gen_count = 4)
        /\ (m.gen_count < 4 => ev.overlay = 0 /\ m.dissolve_phase = 1)
        /\ (ev.cruise_entered <=> m.gen_count = 10)
        /\ (m.dissolving <=> m.gen_count < 10)

C3_Witness ==
    /\ ev.tick
    /\ m.gen_count = 10
    /\ ev.cruise_entered
    /\ ~m.dissolving
    /\ m.dissolve_phase = 3

(***************************************************************************)
(* C4: in main's loop the circadian index is never stepped while           *)
(* dissolving: every tick that ends with dissolving = true leaves          *)
(* circadian_pos at CIRCADIAN_CENTER and sleeps                            *)
(* CIRCADIAN_STEPS[CIRCADIAN_CENTER], whatever the random source yields.   *)
(***************************************************************************)
C4_MainFrozenInDissolve ==
    (ev.tick /\ m.dissolving) =>
        /\ ~ev.walked
        /\ m.circadian_pos = CIRCADIAN_CENTER
        /\ ev.delay = 750

\* a dissolve tick on a multiple of CIRCADIAN_STRIDE
C4_Witness ==
    /\ ev.tick
    /\ m.dissolving
    /\ m.gen_count = CIRCADIAN_STRIDE
    /\ ev.delay = 750

(***************************************************************************)
(* C5: in preview.py simulation_step the circadian index is never stepped  *)
(* while self.dissolving is true: every tick that ends with dissolving =   *)
(* true leaves self.circadian_pos at CIRCADIAN_CENTER.                     *)
(***************************************************************************)
C5_PreviewFrozenInDissolve ==
    (pev.tick /\ self.dissolving) =>
        /\ ~pev.walked
        /\ self.circadian_pos = CIRCADIAN_CENTER

(***************************************************************************)
(* C6: the circadian index stays within [0, len(CIRCADIAN_STEPS) - 1]      *)
(* after any sequence of moves from {-1, 0, +1} starting at                *)
(* CIRCADIAN_CENTER; a move of -1 from index 0 yields 1, a move of +1 from *)
(* the last index yields the second-to-last index, every other move yields *)
(* index + move.                                                           *)
(***************************************************************************)
C6_CircadianReflects ==
    ev.tick =>
        /\ m.circadian_pos \in 0 .. 8
        /\ ev.move \in {-1, 0, 1}
        /\ (ev.walked =>
              m.circadian_pos =
                 (CASE ev.pos_before = 0 /\ ev.move = -1 -> 1
                    [] ev.pos_before = 8 /\ ev.move = 1 -> 7
                    [] OTHER -> ev.pos_before + ev.move))
        /\ (~ev.walked => m.circadian_pos = ev.pos_before)

C6_Witness ==
    /\ ev.tick
    /\ ev.walked
    /\ ev.pos_before = 0
    /\ ev.move = -1
    /\ m.circadian_pos = 1

(***************************************************************************)
(* C7: in every tick, if the population of the newly stepped grid differs  *)
(* from last_pop (the population recorded by the previous tick, initially  *)
(* 0) then stale_count is 0 at the end of the tick; if it equals last_pop  *)
(* and the tick performs no overlay, no Cruise entry and no reseed, then   *)
(* stale_count is its previous value plus 1.                               *)
(***************************************************************************)
C7_StaleCounter ==
    ev.tick =>
        /\ m.last_pop = ev.current_pop
        /\ ((ev.overlay = 0 /\ ~ev.reseeded) => LiveCells(m.grid) = ev.current_pop)
        /\ (ev.current_pop # ev.pop_before => m.stale_count = 0)
        /\ ((/\ ev.current_pop = ev.pop_before
             /\ ev.overlay = 0
             /\ ~ev.cruise_entered
             /\ ~ev.reseeded) => m.stale_count = ev.stale_before + 1)

C7_Witness ==
    /\ ev.tick
    /\ ev.current_pop = ev.pop_before
    /\ ev.current_pop > 0
    /\ ev.overlay = 0 /\ ~ev.cruise_entered /\ ~ev.reseeded
    /\ ev.stale_before = 2
    /\ m.stale_count = 3

(***************************************************************************)
(* C8: in every Cruise tick the grid is replaced by random_grid() exactly  *)
(* when stale_count has reached STALE_RESET_GENS or the population of the  *)
(* newly stepped grid is 0; a reseed leaves stale_count at 0; no tick that *)
(* ends with dissolving = true reseeds.                                    *)
(***************************************************************************)
C8_ReseedExactly ==
    ev.tick =>
        LET stale_at_check ==
                IF ev.overlay # 0 \/ ev.cruise_entered THEN 0
                ELSE IF ev.current_pop = ev.pop_before THEN ev.stale_before + 1
                ELSE 0
        IN /\ (~m.dissolving =>
                 (ev.reseeded <=> (stale_at_check >= 50 \/ ev.current_pop = 0)))
           /\ (ev.reseeded => m.stale_count = 0 /\ m.grid \in random_grid)
           /\ (m.dissolving => ~ev.reseeded)

\* a reseed by staleness: the population is not 0
C8_Witness ==
    /\ ev.tick
    /\ ev.reseeded
    /\ ev.current_pop > 0
    /\ ev.stale_before = 49
    /\ m.stale_count = 0

(***************************************************************************)
(* C9: whenever KeyboardInterrupt arrives, in any phase of the show run by *)
(* game_of_life.py main, the program leaves its loop, the display is       *)
(* cleared with matrix.Clear() and the interrupt does not propagate out of *)
(* main.                                                                   *)
(***************************************************************************)
C9_InterruptHandled ==
    /\ pc # "Propagated"
    /\ (pc = "Stopped" => cleared)

(***************************************************************************)
(* C10: the blocking loop and the callback chain, run from the same seed   *)
(* grid with the same schedule, thresholds and random_grid() outcomes,     *)
(* have the same (gen_count, grid, dissolve_phase, dissolving,             *)
(* stale_count) at the end of every tick, whatever the delays.             *)
(***************************************************************************)
C10_SameSequencing ==
    pc = "Simulation" =>
        /\ ev.tick /\ pev.tick
        /\ <<m.gen_count, m.grid, m.dissolve_phase, m.dissolving, m.stale_count>>
           = <<self.gen_count, self.grid, self.dissolve_phase, self.dissolving,
               self.stale_count>>

\* both reseed by staleness in the same tick while sleeping different delays
C10_Witness ==
    /\ pc = "Simulation"
    /\ ev.reseeded /\ pev.reseeded
    /\ ev.current_pop > 0
    /\ m.circadian_pos # self.circadian_pos
    /\ ev.delay # pev.delay



\* the set of live cells of a grid
LiveSet(g) == { q \in Rows \X Cols : g[q[1]][q[2]] = 1 }

(***************************************************************************)
(* C11: a grid holding only the horizontal three-cell BLINKER on an        *)
(* all-dead grid differs from itself after one next_generation call and    *)
(* equals the original after two, hence after every even number of calls.  *)
(***************************************************************************)
C11_BlinkerPeriodTwo ==
    (pc = "patterns" /\ call.pattern = "blinker") =>
        /\ calls = 1 => out_grid # in_grid
        /\ calls % 2 = 0 => out_grid = in_grid

\* the blinker lies across the wrapped right edge and has gone round twice
C11_Witness ==
    /\ pc = "patterns" /\ call.pattern = "blinker"
    /\ call.col_offset = COLS - 1
    /\ calls = 4
    /\ population(in_grid) = 3
    /\ out_grid = in_grid

(***************************************************************************)
(* C12: a grid holding only the 2x2 BLOCK, placed anywhere including       *)
(* across the wrapped edges, is unchanged by next_generation.              *)
(***************************************************************************)
C12_BlockStill ==
    (pc = "patterns" /\ call.pattern = "block") => out_grid = in_grid

\* the block lies across the wrapped corner: its four cells are the four corners
C12_Witness ==
    /\ pc = "patterns" /\ call.pattern = "block"
    /\ call.row_offset = ROWS - 1 /\ call.col_offset = COLS - 1
    /\ calls > 0
    /\ LiveSet(out_grid) = {<<0, 0>>, <<0, COLS - 1>>, <<ROWS - 1, 0>>, <<ROWS - 1, COLS - 1>>}

(***************************************************************************)
(* C13: GLIDER placed at offset (0, 0) on an all-dead grid has, after four *)
(* next_generation calls, exactly the live cells ((r + 1) mod ROWS,        *)
(* (c + 1) mod COLS) for (r, c) in GLIDER; placed at any other offset,     *)
(* wrapped edges included, the same cells shifted by that offset.          *)
(***************************************************************************)
C13_GliderMoves ==
    (pc = "patterns" /\ call.pattern = "glider" /\ calls = 4) =>
        LiveSet(out_grid) =
            { <<(call.row_offset + p[1] + 1) % ROWS, (call.col_offset + p[2] + 1) % COLS>> :
                p \in {<<0, 1>>, <<1, 2>>, <<2, 0>>, <<2, 1>>, <<2, 2>>} }

\* the glider placed at (0, 0) after four generations
C13_Witness ==
    /\ pc = "patterns" /\ call.pattern = "glider" /\ calls = 4
    /\ call.row_offset = 0 /\ call.col_offset = 0
    /\ LiveSet(out_grid) = {<<1, 2>>, <<2, 3>>, <<3, 1>>, <<3, 2>>, <<3, 3>>}
    /\ out_grid # in_grid


(***************************************************************************)
(* C14: random seeding makes a cell live exactly when its draw u in [0, 1) *)
(* satisfies u < density, so density 0 yields a grid of population 0 and   *)
(* density 1 yields a grid of population ROWS * COLS.                      *)
(***************************************************************************)
C14_SeedByDensity ==
    (pc = "seeding" /\ result # NoCall) =>
        /\ \A r \in Rows, c \in Cols :
              /\ result.grid[r][c] \in {0, 1}
              /\ result.grid[r][c] = 1 <=> call.draws[<<r, c>>] < call.density
        /\ call.density = 0 => population(result.grid) = 0
        /\ call.density = 100 => population(result.grid) = ROWS * COLS

\* density 0.20 with draws on both sides of it: a draw of exactly 0.20 leaves
\* the cell dead, a draw of 0.19 makes it live
C14_Witness ==
    /\ pc = "seeding" /\ result # NoCall
    /\ call.density = INITIAL_DENSITY
    /\ call.draws[<<0, 0>>] = INITIAL_DENSITY /\ result.grid[0][0] = 0
    /\ call.draws[<<0, 1>>] = INITIAL_DENSITY - 1 /\ result.grid[0][1] = 1
    /\ population(result.grid) = 1


(***************************************************************************)
(* C15: every overlay applied to the live grid (the scheduled dissolve     *)
(* overlays of the word bitmap, and place_pattern onto an existing grid)   *)
(* only turns cells on: every cell live before is live after, so the       *)
(* population after is at least the population before; an overlay whose    *)
(* bitmap falls entirely outside the grid leaves the grid unchanged.       *)
(***************************************************************************)
BitmapOutside(bitmap, x, y) ==
    \/ x >= COLS
    \/ y >= ROWS
    \/ y + Len(bitmap) <= 0
    \/ \A i \in 1 .. Len(bitmap) : x + Len(bitmap[i]) <= 0

C15_OverlayOnlyTurnsOn ==
    (pc = "overlays" /\ call # NoCall) =>
        /\ \A r \in Rows, c \in Cols : in_grid[r][c] = 1 => out_grid[r][c] = 1
        /\ \A r \in Rows, c \in Cols : out_grid[r][c] \in {0, 1}
        /\ population(out_grid) >= population(in_grid)
        /\ (/\ call.name \in {"overlay_bitmap_to_grid", "main_dissolve"}
            /\ BitmapOutside(find_bitmap, call.x_offset, call.y_offset))
           => out_grid = in_grid

\* a scheduled overlay of the dissolve has turned cells on and has kept a live
\* cell that the bitmap does not cover
C15_Witness ==
    /\ pc = "overlays" /\ call # NoCall
    /\ call.name = "main_dissolve"
    /\ population(out_grid) > population(in_grid)
    /\ \E r \in Rows, c \in Cols :
          /\ in_grid[r][c] = 1
          /\ bitmap_pixel(find_bitmap, r, c, call.x_offset, call.y_offset) = 0
          /\ out_grid[r][c] = 1


(***************************************************************************)
(* C16: load_pattern with a name that is not a key of PATTERNS fails with  *)
(* a ValueError that carries the offending name and the sorted list of the *)
(* valid names, returns no grid and changes no state; a following          *)
(* load_pattern call with a valid name returns the grid it would have      *)
(* returned without the failed call.                                       *)
(***************************************************************************)
KeySet == { PATTERNS[i][1] : i \in 1 .. Len(PATTERNS) }

PatternOf(name) == PATTERNS[CHOOSE i \in 1 .. Len(PATTERNS) : PATTERNS[i][1] = name][2]

\* where load_pattern puts a pattern: at the offset given, else so that its
\* bounding box is centred
PlacedAt(pattern, offset, size, axis) ==
    IF offset # << >> THEN offset[1]
    ELSE (size - (CHOOSE x \in { p[axis] : p \in pattern } :
                     \A p \in pattern : p[axis] <= x)) \div 2

ShowSim == IF self = NoSim THEN m ELSE self

ShowPhase ==
    IF pc = "Simulation"
    THEN (IF ShowSim.dissolving THEN "Dissolve" ELSE "Cruise")
    ELSE pc

ShowPhases == StartupPhases \cup {"Dissolve", "Cruise"}

\* the place of the current phase in the fixed order, from 0
PhaseRank ==
    CASE ShowPhase = "Stargazing" -> 0
      [] ShowPhase = "TickerScroll" -> 1 + 2 * line
      [] ShowPhase = "Pause" -> 2 + 2 * line
      [] ShowPhase = "FinalScroll" -> 1 + 2 * (NumTickerLines - 1)
      [] ShowPhase = "Dawn" -> 2 + 2 * (NumTickerLines - 1)
      [] ShowPhase = "Dissolve" -> 3 + 2 * (NumTickerLines - 1)
      [] ShowPhase = "Cruise" -> 4 + 2 * (NumTickerLines - 1)
      [] OTHER -> 0 - 1

C17_PhaseOrder ==
    [][ /\ ShowPhase \in ShowPhases /\ ShowPhase' \in ShowPhases
           => \/ ShowPhase' = ShowPhase /\ line' = line
              \/ PhaseRank' = PhaseRank + 1
        /\ ShowPhase = "Stargazing" => line = 0
        /\ ShowPhase \in {"TickerScroll", "Pause"} => line \in 0 .. (NumTickerLines - 2)
        /\ ShowPhase = "Cruise" => ShowPhase' \in {"Cruise", "Stopped"}
      ]_vars

\* the preview has gone through every phase and has just entered Cruise
C17_Witness ==
    /\ self # NoSim
    /\ ShowPhase = "Cruise"
    /\ pev.cruise_entered
    /\ line = NumTickerLines - 1

(***************************************************************************)
(* C18: with no interrupt, every sleep returning and every timer callback  *)
(* run, the show eventually is in Cruise, every scripted phase before it   *)
(* having ended, with gen_count grown to the last generation the model     *)
(* runs for; and once in Cruise it stays in Cruise.                        *)
(***************************************************************************)
C18_ReachesCruiseAndRuns ==
    /\ <>(ShowPhase = "Cruise" /\ ShowSim.gen_count = ShowMaxGen)
    /\ [][ShowPhase = "Cruise" => ShowPhase' = "Cruise"]_vars

\* main's loop is in Cruise and has run for as long as the model lets it
C18_Witness ==
    /\ self = NoSim
    /\ ShowPhase = "Cruise"
    /\ m.gen_count = ShowMaxGen
    /\ ev.tick

(***************************************************************************)
(* C19: the circadian index changes only in ticks whose gen_count is a     *)
(* multiple of CIRCADIAN_STRIDE, and in such a tick by at most 1.          *)
(***************************************************************************)
C19_CircadianFrame ==
    /\ (self = NoSim /\ ev.tick) =>
          /\ m.circadian_pos # ev.pos_before => m.gen_count % CIRCADIAN_STRIDE = 0
          /\ m.circadian_pos - ev.pos_before \in {-1, 0, 1}
          /\ ~ev.walked => m.circadian_pos = ev.pos_before
    /\ (self # NoSim /\ pev.tick) =>
          /\ self.circadian_pos # pev.pos_before => self.gen_count % CIRCADIAN_STRIDE = 0
          /\ self.circadian_pos - pev.pos_before \in {-1, 0, 1}
          /\ ~pev.walked => self.circadian_pos = pev.pos_before

\* main's tick of generation 16 has stepped the index up by one
C19_Witness ==
    /\ self = NoSim /\ pc = "Simulation" /\ ev.tick
    /\ m.gen_count = 2 * CIRCADIAN_STRIDE
    /\ ev.walked
    /\ m.circadian_pos = ev.pos_before + 1


(***************************************************************************)
(* C20: next_generation returns a ROWS x COLS grid with values in {0, 1},  *)
(* so after any sequence of step, overlay and reseed operations of the     *)
(* simulation loop the current grid still has ROWS rows of COLS cells,     *)
(* each 0 or 1.                                                            *)
(***************************************************************************)
IsGrid(g) ==
    /\ DOMAIN g = Rows
    /\ \A r \in Rows :
          /\ DOMAIN g[r] = Cols
          /\ \A c \in Cols : g[r][c] \in {0, 1}

ShowLog == IF self = NoSim THEN ev ELSE pev

C21_RenderOncePerTick ==
    [][ (pc' = "Simulation" /\ ShowLog'.tick) =>
           /\ ShowSim'.frames = ShowSim.frames + 1
           /\ ShowSim'.gen_count = ShowSim.gen_count + 1
           /\ ShowSim'.frames = ShowSim'.gen_count
           /\ ShowSim'.canvas =
                 IF pc = "Simulation"
                 THEN ShowSim.grid
                 ELSE bitmap_to_grid(find_bitmap, COLS, ROWS, 0, y_offset)
           /\ (ShowLog'.overlay = 0 /\ ~ShowLog'.reseeded) =>
                 ShowSim'.grid = next_generation(ShowSim'.canvas)
      ]_vars

\* main's tick has reseeded the grid in Cruise, after the overlays and the
\* Cruise entry, and the frames drawn are as many as the generations
C21_Witness ==
    /\ self = NoSim /\ pc = "Simulation" /\ ev.tick
    /\ ev.reseeded
    /\ m.gen_count > DISSOLVE_TOTAL_GENS
    /\ m.frames = m.gen_count
    /\ m.canvas # m.grid


(***************************************************************************)
(* C22: constructing a StarField yields exactly min(NUM_STARS, number of   *)
(* cells whose row is outside the text band) stars, at pairwise distinct   *)
(* positions inside the grid, each in a row outside the band; a sky with   *)
(* at most NUM_STARS cells, an empty one included, is used up entirely and *)
(* raises no error; and no night frame changes the stars afterwards.       *)
(***************************************************************************)
\* the cells of the grid whose row is outside the band of the call
SkyOf(c) ==
    { p \in Rows \X Cols : p[1] < c.y_offset \/ p[1] >= c.y_offset + c.char_height }

C22_StarsOutsideBand ==
    [][ /\ pc' # "raised"
        /\ pc' = "stargazing" =>
              LET stars == result'.stars
                  sky == SkyOf(call')
                  n == Cardinality(sky)
              IN /\ result'.raised = "none"
                 /\ Len(stars) = IF NUM_STARS < n THEN NUM_STARS ELSE n
                 /\ \A i, j \in 1 .. Len(stars) : i # j => stars[i] # stars[j]
                 /\ \A i \in 1 .. Len(stars) : stars[i] \in sky
                 /\ n <= NUM_STARS => { stars[i] : i \in 1 .. Len(stars) } = sky
        /\ pc = "stargazing" => result' = result
      ]_vars

\* a band that leaves fewer sky cells than NUM_STARS, all of them stars, shown
\* in two night frames
C22_Witness ==
    /\ pc = "stargazing" /\ call.name = "StarField"
    /\ calls = StarFrames
    /\ Cardinality(SkyOf(call)) \in 1 .. (NUM_STARS - 1)
    /\ Len(result.stars) = Cardinality(SkyOf(call))
    /\ out_grid # empty_grid

\* the band covers the whole grid: no sky, no stars, no error
C22_WitnessNoSky ==
    /\ pc = "stargazing" /\ call.name = "StarField"
    /\ SkyOf(call) = {}
    /\ result.stars = << >>


(***************************************************************************)
(* C23: scroll_line shows the line at x = COLS, COLS - 1, ..., one pixel   *)
(* further left in each frame, and returns (calls its continuation), once, *)
(* exactly when x has reached -text_width, after exactly COLS + text_width *)
(* frames, for every text width from 0 on; with every sleep returning and  *)
(* every timer callback run, it does return.                               *)
(***************************************************************************)
C23_ScrollLineTerminates ==
    /\ <>(pc # "TickerScroll")
    /\ [][ pc = "TickerScroll" =>
             \/ /\ pc' = "TickerScroll"
                /\ result'.frames = result.frames + 1
                /\ result'.x_offset = COLS - result.frames
                /\ result'.x_offset > 0 - call.text_width
                /\ result'.returns = 0
             \/ /\ pc' = "FinalScroll"
                /\ call.x = 0 - call.text_width
                /\ result.frames = COLS + call.text_width
                /\ result'.returns = 1
         ]_vars

\* the preview's scroll of a line of no width has shown its last frame, at x = 1
C23_Witness ==
    /\ pc = "TickerScroll" /\ self # NoSim
    /\ call.text_width = 0
    /\ result.frames = COLS
    /\ result.x_offset = 1
    /\ call.x = 0

\* main's scroll of the widest line has returned
C23_WitnessReturned ==
    /\ pc = "FinalScroll" /\ self = NoSim
    /\ result.returns = 1
    /\ result.frames = 0


(***************************************************************************)
(* C24: the dawn transition shows exactly DAWN_STEPS frames and then seeds *)
(* the grid, once; the background is the night colour in the first frame   *)
(* and the sea colour (DEAD_COLOR) in the last, no channel ever decreasing *)
(* or leaving 0 .. 255, and the star multiplier is 1 in the first frame    *)
(* and 0 in the last.                                                      *)
(***************************************************************************)
\* a dawn frame is on the matrix
DawnShown == pc = "Dawn" /\ result.frames >= 1

C24_DawnFade ==
    [][ /\ DawnShown' =>
             /\ result'.frames <= DAWN_STEPS
             /\ \A i \in 1 .. 3 : result'.bg[i] \in 0 .. 255
             /\ DawnShown => \A i \in 1 .. 3 : result'.bg[i] >= result.bg[i]
             /\ result'.frames = 1 =>
                   result'.bg = NIGHT_COLOR /\ result'.star_num = DAWN_STEPS
             /\ result'.frames = DAWN_STEPS =>
                   result'.bg = DEAD_COLOR /\ result'.star_num = 0
        /\ pc' = "Simulation" =>
             result'.frames = DAWN_STEPS /\ result'.seeds = 1
      ]_vars


(***************************************************************************)
(* C25: at the end of every tick last_pop is the population of the current *)
(* grid, the grid the next tick steps from; so a tick adds 1 to            *)
(* stale_count exactly when its step left the population of the grid it    *)
(* started from unchanged, also after an overlay or a reseed.              *)
(***************************************************************************)
C25_LastPopIsPopulation ==
    (pc = "Simulation" /\ ev.tick) =>
       /\ m.last_pop = population(m.grid)
       /\ (ev.overlay = 0 /\ ~ev.cruise_entered /\ ~ev.reseeded /\ m.gen_count > 1) =>
             (m.stale_count = ev.stale_before + 1
                <=> ev.current_pop = population(m.canvas))


(***************************************************************************)
(* C26: at the end of every tick, in Dissolve and in Cruise, of either     *)
(* variant, 0 <= stale_count < STALE_RESET_GENS: every overlay, the Cruise *)
(* entry and every reseed leave it 0, the dissolve is over before          *)
(* STALE_RESET_GENS generations, and in Cruise the tick in which the       *)
(* counter reaches the threshold resets it.                                *)
(***************************************************************************)
C26_StaleBelowThreshold ==
    (pc = "Simulation" /\ ShowLog.tick) =>
       /\ ShowSim.stale_count \in 0 .. (STALE_RESET_GENS - 1)
       /\ (ShowLog.overlay # 0 \/ ShowLog.cruise_entered \/ ShowLog.reseeded) =>
             ShowSim.stale_count = 0
       /\ ShowSim.dissolving => ShowSim.gen_count < STALE_RESET_GENS
       /\ ShowLog.stale_before \in 0 .. (STALE_RESET_GENS - 1)

\* the preview's counter has reached the threshold on a live grid in Cruise
\* and the same tick has reseeded the grid and reset the counter
C26_Witness ==
    /\ self # NoSim /\ pc = "Simulation" /\ pev.tick
    /\ ~self.dissolving
    /\ pev.stale_before = STALE_RESET_GENS - 1
    /\ pev.current_pop > 0
    /\ pev.reseeded
    /\ self.stale_count = 0

\* the same in main
C26_WitnessMain ==
    /\ self = NoSim /\ pc = "Simulation" /\ ev.tick
    /\ ~m.dissolving
    /\ ev.stale_before = STALE_RESET_GENS - 1
    /\ ev.current_pop > 0
    /\ ev.reseeded
    /\ m.stale_count = 0


(***************************************************************************)
(* C27: in Cruise a grid that next_generation leaves unchanged is reseeded *)
(* within STALE_RESET_GENS further ticks, so no run of frames that began   *)
(* in Cruise shows the same unreseeded grid more than STALE_RESET_GENS     *)
(* times in a row.                                                         *)
(***************************************************************************)
\* the frames shown since the Cruise entry
CruiseFrames == ShowSim.gen_count - config.total

C27_StaticGridReseeded ==
    (pc = "Simulation" /\ ShowLog.tick /\ ~ShowSim.dissolving) =>
       (ShowSim.static <= CruiseFrames => ShowSim.static <= STALE_RESET_GENS)


(***************************************************************************)
(* C28: the final scroll shows the line at every x from COLS down to and   *)
(* including x_stop = -(len(text) - len("find")) * CELL_WIDTH, so its last *)
(* frame has the last word's left edge at column 0, where the dawn frames  *)
(* hold the word: the word does not move between the last scroll frame and *)
(* the first dawn frame.                                                   *)
(***************************************************************************)
C28_WordHeldAtStop ==
    [][ /\ (pc = "FinalScroll" /\ pc' = "FinalScroll") =>
              /\ result'.x_offset = COLS - result.frames
              /\ result'.x_offset >= call.x_stop
        /\ (pc = "FinalScroll" /\ pc' = "Dawn") =>
              /\ result.x_offset = call.x_stop
              /\ result.word_col = 0
              /\ result.frames = COLS - call.x_stop + 1
        /\ (pc = "Dawn" /\ pc' = "Dawn") =>
              /\ result'.word_col = 0
              /\ result'.word_col = result.word_col
      ]_vars

====
